---- MODULE Spec2Model ----
(***************************************************************************)
(* Model of the gravitational-memory engine of ai-books-mcp-server:        *)
(* chunkText, compressChunk, calculateSimilarity, queryLibrary,            *)
(* verifyIntegrity (services/gravitational.ts), the LibraryStorage map     *)
(* (services/storage.ts) and the createLibrary input schema                *)
(* (schemas/index.ts).                                                     *)
(*                                                                         *)
(* A JavaScript string is a sequence of one-character strings.  Operators  *)
(* that walk a string split the index range in halves instead of walking   *)
(* it left to right, so that a 250-word chunk stays within the evaluator's *)
(* recursion depth; the value computed is the one the loop computes.       *)
(***************************************************************************)
EXTENDS Integers, Sequences, FiniteSets, TLC

VARIABLES libraries, nextId, now, arg, last

vars == <<libraries, nextId, now, arg, last>>

(***************************************************************************)
(* Characters                                                              *)
(***************************************************************************)
LowerSeq == <<"a","b","c","d","e","f","g","h","i","j","k","l","m",
              "n","o","p","q","r","s","t","u","v","w","x","y","z">>
UpperSeq == <<"A","B","C","D","E","F","G","H","I","J","K","L","M",
              "N","O","P","Q","R","S","T","U","V","W","X","Y","Z">>
DigitSeq == <<"0","1","2","3","4","5","6","7","8","9">>
HexDigits == <<"0","1","2","3","4","5","6","7","8","9","a","b","c","d","e","f">>

Range(s) == {s[i] : i \in 1..Len(s)}
Lower == Range(LowerSeq)
Upper == Range(UpperSeq)
Digits == Range(DigitSeq)

\* \s of the regular expressions (the members that occur in the inputs)
IsSpace(c) == c \in {" ", "\t", "\n"}
\* \w of the regular expressions: [A-Za-z0-9_]
IsWordChar(c) == c \in Lower \cup Upper \cup Digits \cup {"_"}
\* the class [a-z0-9-_] of the library-name pattern
IsNameChar(c) == c \in Lower \cup Digits \cup {"-", "_"}

IndexIn(s, c) == CHOOSE i \in 1..Len(s) : s[i] = c

\* String.prototype.toLowerCase, one character
LowerTable == [c \in Upper |-> LowerSeq[IndexIn(UpperSeq, c)]]
LowerChar(c) == IF c \in Upper THEN LowerTable[c] ELSE c
toLowerCase(s) == [i \in 1..Len(s) |-> LowerChar(s[i])]

\* the UTF-8 byte of an ASCII character
Chars == Lower \cup Upper \cup Digits \cup {" ", "\t", "\n", "-", ".", "_", "?"}
CodeOf(c) ==
  IF c \in Lower THEN 96 + IndexIn(LowerSeq, c)
  ELSE IF c \in Upper THEN 64 + IndexIn(UpperSeq, c)
  ELSE IF c \in Digits THEN 47 + IndexIn(DigitSeq, c)
  ELSE IF c = " " THEN 32
  ELSE IF c = "\t" THEN 9
  ELSE IF c = "\n" THEN 10
  ELSE IF c = "-" THEN 45
  ELSE IF c = "." THEN 46
  ELSE IF c = "_" THEN 95
  ELSE 63
CodeTable == [c \in Chars |-> CodeOf(c)]
CharCode(c) == CodeTable[c]

Min(a, b) == IF a < b THEN a ELSE b
Max(a, b) == IF a < b THEN b ELSE a

(***************************************************************************)
(* String.prototype.split with a separator pattern that matches maximal    *)
(* runs of separator characters (/\s+/ and /\W+/).  seps is the set of     *)
(* positions of s holding a separator character.  A piece starts at        *)
(* position 1 and after every separator run (also when the run ends the    *)
(* string: the last piece is then empty), and ends before the next         *)
(* separator run or with the string.                                       *)
(***************************************************************************)
RECURSIVE Ascending(_, _, _)
Ascending(S, lo, hi) ==
  IF lo > hi THEN <<>>
  ELSE IF lo = hi THEN (IF lo \in S THEN <<lo>> ELSE <<>>)
  ELSE LET mid == (lo + hi) \div 2
       IN Ascending(S, lo, mid) \o Ascending(S, mid + 1, hi)

PieceStarts(s, seps) ==
  {i \in 1..(Len(s) + 1) :
     \/ i = 1
     \/ /\ (i - 1) \in seps
        /\ i \notin seps}

PieceEnds(s, seps) ==
  {j \in 0..Len(s) :
     \/ j = Len(s)
     \/ /\ (j + 1) \in seps
        /\ j \notin seps}

SplitOn(s, seps) ==
  LET starts == Ascending(PieceStarts(s, seps), 1, Len(s) + 1)
      ends == Ascending(PieceEnds(s, seps), 0, Len(s))
  IN [k \in 1..Len(starts) |-> SubSeq(s, starts[k], ends[k])]

\* text.split(/\s+/)
SplitWhitespace(s) == SplitOn(s, {i \in 1..Len(s) : IsSpace(s[i])})
\* text.split(/\W+/)
SplitNonWord(s) == SplitOn(s, {i \in 1..Len(s) : ~IsWordChar(s[i])})

\* Array.prototype.join(' ') of words[lo..hi]
RECURSIVE JoinRange(_, _, _)
JoinRange(words, lo, hi) ==
  IF lo > hi THEN <<>>
  ELSE IF lo = hi THEN words[lo]
  ELSE LET mid == (lo + hi) \div 2
       IN JoinRange(words, lo, mid) \o <<" ">> \o JoinRange(words, mid + 1, hi)

(***************************************************************************)
(* chunkText                                                               *)
(***************************************************************************)
DefaultWordsPerChunk == 250

\* chunkText slicing one word past the end of each piece
chunkTextOverlapping(text, targetWordsPerChunk) ==
  LET words == SplitWhitespace(text)
      offsets == Ascending({i \in 0..(Len(words) - 1) : i % targetWordsPerChunk = 0},
                           0, Len(words) - 1)
  IN [k \in 1..Len(offsets) |->
        JoinRange(words, offsets[k] + 1,
                  Min(offsets[k] + targetWordsPerChunk + 1, Len(words)))]

chunkText(text, targetWordsPerChunk) ==
  LET words == SplitWhitespace(text)
      offsets == Ascending({i \in 0..(Len(words) - 1) : i % targetWordsPerChunk = 0},
                           0, Len(words) - 1)
  IN [k \in 1..Len(offsets) |->
        JoinRange(words, offsets[k] + 1,
                  Min(offsets[k] + targetWordsPerChunk, Len(words)))]

(***************************************************************************)
(* crypto.createHash('sha256').update(s).digest(): 32 bytes that depend    *)
(* on nothing but s.  The compression function of SHA-256 is replaced by   *)
(* a position-weighted checksum spread over the 32 output bytes; what the  *)
(* program relies on (a fixed-length digest, a function of the content     *)
(* alone) is kept.                                                         *)
(***************************************************************************)
DigestBytes == 32

RECURSIVE WeightedSum(_, _, _)
WeightedSum(s, lo, hi) ==
  IF lo > hi THEN 0
  ELSE IF lo = hi THEN (CharCode(s[lo]) * ((lo % 127) + 1)) % 65521
  ELSE LET mid == (lo + hi) \div 2
       IN (WeightedSum(s, lo, mid) + WeightedSum(s, mid + 1, hi)) % 65521

\* the values x takes in the given number of mixing rounds
RECURSIVE Mix(_, _)
Mix(x, rounds) ==
  IF rounds = 0 THEN <<>>
  ELSE LET y == (x * 75 + 74) % 65537
       IN <<y>> \o Mix(y, rounds - 1)

SHA256(s) ==
  LET seed == (WeightedSum(s, 1, Len(s)) * 31 + Len(s)) % 65537
      mixed == Mix(seed, DigestBytes)
  IN [k \in 1..DigestBytes |-> (mixed[k] \div 8) % 256]

\* .digest('hex'): two lowercase hex digits per byte
HexEncode(bytes) ==
  [i \in 1..(2 * Len(bytes)) |->
     LET b == bytes[(i + 1) \div 2]
     IN HexDigits[(IF i % 2 = 1 THEN b \div 16 ELSE b % 16) + 1]]

Sha256Hex(s) == HexEncode(SHA256(s))

\* Buffer.from(hash, 'hex')
HexValue(c) == IndexIn(HexDigits, c) - 1
HexDecode(hex) ==
  [i \in 1..(Len(hex) \div 2) |-> 16 * HexValue(hex[2 * i - 1]) + HexValue(hex[2 * i])]

(***************************************************************************)
(* calculateGravitationalStates, compressChunk                             *)
(***************************************************************************)
SeedBytes == 16
DefaultNMax == 15

\* calculateGravitationalStates indexing the seed bytes by n instead of n - 1
calculateGravitationalStatesShifted(hash, n_max) ==
  LET hashBytes == HexDecode(hash)
      relevantBytes == SubSeq(hashBytes, 1, Min(SeedBytes, Len(hashBytes)))
  IN [n \in 1..n_max |->
        relevantBytes[(n % Len(relevantBytes)) + 1] % ((2 * n * n) + 1)]

calculateGravitationalStates(hash, n_max) ==
  LET hashBytes == HexDecode(hash)
      relevantBytes == SubSeq(hashBytes, 1, Min(SeedBytes, Len(hashBytes)))
  IN [n \in 1..n_max |->
        LET orbitalCapacity == 2 * n * n
            byteIndex == (n - 1) % Len(relevantBytes)
        IN relevantBytes[byteIndex + 1] % (orbitalCapacity + 1)]

\* compressChunk deriving the states from the content and the chunk identifier
compressChunkSalted(content, n_max, id, time) ==
  LET hash == Sha256Hex(content)
      states == calculateGravitationalStates(Sha256Hex(content \o <<DigitSeq[(id % 10) + 1]>>), n_max)
  IN [id |-> id,
      content |-> content,
      hash |-> hash,
      gravitational_bit |-> [hash |-> hash,
                             states |-> states,
                             n_max |-> n_max,
                             compression_ratio |-> <<Len(content), 32 + (Len(states) * 4)>>],
      metadata |-> [word_count |-> Len(SplitWhitespace(content)),
                    character_count |-> Len(content),
                    created_at |-> time]]

\* compressChunk recording the digest of the lower-cased content
compressChunkLowerCased(content, n_max, id, time) ==
  LET hash == Sha256Hex(toLowerCase(content))
      states == calculateGravitationalStates(hash, n_max)
  IN [id |-> id,
      content |-> content,
      hash |-> hash,
      gravitational_bit |-> [hash |-> hash,
                             states |-> states,
                             n_max |-> n_max,
                             compression_ratio |-> <<Len(content), 32 + (Len(states) * 4)>>],
      metadata |-> [word_count |-> Len(SplitWhitespace(content)),
                    character_count |-> Len(content),
                    created_at |-> time]]

\* id is the value crypto.randomUUID() returns, time the value of new Date().
\* A ratio of two sizes is kept as the pair <<dividend, divisor>>.
compressChunk(content, n_max, id, time) ==
  LET hash == Sha256Hex(content)
      states == calculateGravitationalStates(hash, n_max)
      originalSize == Len(content)
      compressedSize == 32 + (Len(states) * 4)
  IN [id |-> id,
      content |-> content,
      hash |-> hash,
      gravitational_bit |-> [hash |-> hash,
                             states |-> states,
                             n_max |-> n_max,
                             compression_ratio |-> <<originalSize, compressedSize>>],
      metadata |-> [word_count |-> Len(SplitWhitespace(content)),
                    character_count |-> Len(content),
                    created_at |-> time]]

(***************************************************************************)
(* calculateSimilarity.  The score 0.7 * keywordSimilarity +               *)
(* 0.3 * hashSimilarity is kept as the integer                             *)
(* score * 640 * max(1, number of kept query words): for one query the     *)
(* factor is the same for every chunk, so scores of one query compare as   *)
(* these integers do.                                                      *)
(***************************************************************************)
\* String.prototype.includes
Includes(hay, needle) ==
  \E i \in 0..(Len(hay) - Len(needle)) : SubSeq(hay, i + 1, i + Len(needle)) = needle

QueryWords(query) == SelectSeq(SplitNonWord(toLowerCase(query)), LAMBDA w : Len(w) > 3)

HashMatches(query, chunk) ==
  LET queryHash == Sha256Hex(toLowerCase(query))
      chunkHash == chunk.hash
  IN Cardinality({i \in 1..Min(Len(queryHash), Len(chunkHash)) : queryHash[i] = chunkHash[i]})

KeywordMatches(query, chunk) ==
  LET queryWords == QueryWords(query)
      contentWords == SplitNonWord(toLowerCase(chunk.content))
  IN Cardinality({q \in 1..Len(queryWords) :
        \E c \in 1..Len(contentWords) :
           \/ Includes(contentWords[c], queryWords[q])
           \/ Includes(queryWords[q], contentWords[c])})

calculateSimilarity(query, chunk) ==
  LET kept == Len(QueryWords(query))
  IN IF kept > 0
       THEN 448 * KeywordMatches(query, chunk) + 3 * HashMatches(query, chunk) * kept
       ELSE 3 * HashMatches(query, chunk)

(***************************************************************************)
(* createLibrary, queryLibrary, verifyIntegrity                            *)
(***************************************************************************)
\* Array.prototype.reduce((sum, x) => sum + x, 0) over xs[lo..hi]
RECURSIVE SumRange(_, _, _)
SumRange(xs, lo, hi) ==
  IF lo > hi THEN 0
  ELSE IF lo = hi THEN xs[lo]
  ELSE LET mid == (lo + hi) \div 2
       IN SumRange(xs, lo, mid) + SumRange(xs, mid + 1, hi)

createLibrary(name, text, n_max, firstId, time) ==
  LET textChunks == chunkText(text, DefaultWordsPerChunk)
      compressedChunks ==
        [k \in 1..Len(textChunks) |-> compressChunk(textChunks[k], n_max, firstId + k - 1, time)]
      sizes == [k \in 1..Len(compressedChunks) |->
                  32 + (Len(compressedChunks[k].gravitational_bit.states) * 4)]
      totalCompressedSize == SumRange(sizes, 1, Len(sizes))
  IN [name |-> name,
      chunks |-> compressedChunks,
      total_compression_ratio |-> <<Len(text), totalCompressedSize>>,
      created_at |-> time,
      updated_at |-> time]

\* a sort that puts elements that compare equal in reverse order
SortDescendingUnstable(scored) ==
  LET before(i, j) == \/ scored[i].score > scored[j].score
                      \/ /\ scored[i].score = scored[j].score
                         /\ i > j
      rank(i) == 1 + Cardinality({j \in 1..Len(scored) : before(j, i)})
  IN [p \in 1..Len(scored) |-> scored[CHOOSE i \in 1..Len(scored) : rank(i) = p]]

\* Array.prototype.sort with the comparator (a, b) => b.score - a.score; the
\* sort is stable, so elements that compare equal keep their order.
SortDescending(scored) ==
  LET before(i, j) == \/ scored[i].score > scored[j].score
                      \/ /\ scored[i].score = scored[j].score
                         /\ i < j
      rank(i) == 1 + Cardinality({j \in 1..Len(scored) : before(j, i)})
  IN [p \in 1..Len(scored) |-> scored[CHOOSE i \in 1..Len(scored) : rank(i) = p]]

\* slice(0, end - 1)
SliceFromStartShort(s, end) ==
  SubSeq(s, 1, IF end - 1 < 0 THEN Max(Len(s) + end - 1, 0) ELSE Min(end - 1, Len(s)))

\* Array.prototype.slice(0, end)
SliceFromStart(s, end) ==
  SubSeq(s, 1, IF end < 0 THEN Max(Len(s) + end, 0) ELSE Min(end, Len(s)))

ScoreChunks(library, query) ==
  [i \in 1..Len(library.chunks) |->
     [chunk |-> library.chunks[i], score |-> calculateSimilarity(query, library.chunks[i])]]

queryLibrary(library, query, topK) ==
  LET top == SliceFromStart(SortDescending(ScoreChunks(library, query)), topK)
  IN [i \in 1..Len(top) |-> top[i].chunk]

verifyIntegrity(chunk) == Sha256Hex(chunk.content) = chunk.hash

(***************************************************************************)
(* Inputs                                                                  *)
(***************************************************************************)
MaxTextLen == 5
MaxTargetWords == 3

SmallChars == {"a", "b", " "}
SmallTexts == UNION {[1..n -> SmallChars] : n \in 0..MaxTextLen}

None == [op |-> "none"]

(***************************************************************************)
(* SpecChunk: chunkText applied to a text and a target size                *)
(***************************************************************************)
InitChunk ==
  /\ libraries = <<>>
  /\ nextId = 1
  /\ now = 0
  /\ \E text \in SmallTexts, w \in 1..MaxTargetWords :
        arg = [op |-> "chunkText", text |-> text, w |-> w]
  /\ last = None

CallChunkText ==
  /\ arg.op = "chunkText"
  /\ last = None
  /\ last' = [op |-> "chunkText", pieces |-> chunkText(arg.text, arg.w)]
  /\ UNCHANGED <<libraries, nextId, now, arg>>

NextChunk == CallChunkText

SpecChunk == InitChunk /\ [][NextChunk]_vars

\* the words of all pieces, in order
RECURSIVE FlattenRange(_, _, _)
FlattenRange(seqs, lo, hi) ==
  IF lo > hi THEN <<>>
  ELSE IF lo = hi THEN seqs[lo]
  ELSE LET mid == (lo + hi) \div 2
       IN FlattenRange(seqs, lo, mid) \o FlattenRange(seqs, mid + 1, hi)

\* A text holds one word more than it holds whitespace runs (the words a split
\* on whitespace runs yields, the empty ones at either end included).
WhitespaceRuns(text) ==
  Cardinality({i \in 1..Len(text) : IsSpace(text[i]) /\ (i = 1 \/ ~IsSpace(text[i - 1]))})
WordCount(text) == WhitespaceRuns(text) + 1

NonEmptyWords(text) == SelectSeq(SplitWhitespace(text), LAMBDA w : Len(w) > 0)

\* C11: chunk(text, w) keeps the words in order and returns no empty piece for
\* a non-empty text, leading or trailing whitespace and w = 1 included; for the
\* empty text it returns exactly one piece, the empty one.
C11_NoEmptyPiece ==
  last.op = "chunkText" =>
    LET pieces == last.pieces
        pieceWords == [k \in 1..Len(pieces) |-> NonEmptyWords(pieces[k])]
    IN /\ FlattenRange(pieceWords, 1, Len(pieces)) = NonEmptyWords(arg.text)
       /\ (Len(arg.text) > 0 => \A k \in 1..Len(pieces) : Len(pieces[k]) > 0)
       /\ (Len(arg.text) = 0 => pieces = << <<>> >>)

(***************************************************************************)
(* LibraryStorage: the Map from library name to library                    *)
(***************************************************************************)
\* save appending the new chunks to those of an entry already present
saveMerging(libs, library) ==
  [n \in DOMAIN libs \cup {library.name} |->
     IF n # library.name THEN libs[n]
     ELSE IF n \in DOMAIN libs
       THEN [library EXCEPT !.chunks = libs[n].chunks \o library.chunks]
       ELSE library]

\* save(library): this.libraries.set(library.name, library)
save(libs, library) ==
  [n \in DOMAIN libs \cup {library.name} |->
     IF n = library.name THEN library ELSE libs[n]]

\* exists(name), and get(name) for a name that exists
exists(libs, name) == name \in DOMAIN libs
get(libs, name) == libs[name]

\* delete reporting whether the name is absent once it has run
deleteResultAfter(libs, name) == name \notin DOMAIN [n \in DOMAIN libs \ {name} |-> libs[n]]

\* delete(name): the value Map.prototype.delete returns, and the map it leaves
deleteResult(libs, name) == name \in DOMAIN libs
deleteMap(libs, name) == [n \in DOMAIN libs \ {name} |-> libs[n]]

(***************************************************************************)
(* CreateLibraryInputSchema                                                *)
(***************************************************************************)
NameMaxLen == 100
TextMinLen == 100
NMaxLowest == 5
NMaxHighest == 20

NameSchema(name) ==
  /\ Len(name) >= 1
  /\ Len(name) <= NameMaxLen
  /\ \A i \in 1..Len(name) : IsNameChar(name[i])

TextSchema(text) == Len(text) >= TextMinLen

\* An optional argument is <<>> when absent and <<v>> when given as v.
Absent == <<>>
Given(v) == <<v>>

NMaxSchema(n_max) ==
  \/ n_max = Absent
  \/ /\ n_max[1] >= NMaxLowest
     /\ n_max[1] <= NMaxHighest

CreateLibraryInputSchema(name, text, n_max) ==
  /\ NameSchema(name)
  /\ TextSchema(text)
  /\ NMaxSchema(n_max)

(***************************************************************************)
(* Inputs of the store operations                                          *)
(***************************************************************************)
MaxCreates == 2

Repeat(c, n) == [i \in 1..n |-> c]
\* n words w separated by single blanks
WordsText(w, n) ==
  [i \in 1..(n * (Len(w) + 1) - 1) |->
     IF i % (Len(w) + 1) = 0 THEN " " ELSE w[i % (Len(w) + 1)]]

NameHyphen == <<"h","a","s","-","s","p","a","c","e","s","_","2">>
NameLongest == Repeat("a", NameMaxLen)
NameEmpty == <<>>
NameSpaces == <<"H","a","s"," ","S","p","a","c","e","s">>
NameTooLong == Repeat("a", NameMaxLen + 1)
ValidNames == {NameHyphen, NameLongest}
Names == ValidNames \cup {NameEmpty}

\* 99 and 100 characters, one chunk
TextTooShort == WordsText(<<"A","b","c","d">>, 20)
TextShortest == WordsText(<<"A","b","c","d">>, 20) \o <<"e">>
\* 251 words: a chunk of 250 words and one of a single word
TextTwoChunks == WordsText(<<"a">>, DefaultWordsPerChunk + 1)

\* <<name, text, n_max>>: inputs the schema accepts, and inputs failing one
\* rule of it or all of them
CreateInputs ==
  {<<NameHyphen, TextShortest, Absent>>,
   <<NameHyphen, TextTwoChunks, Given(NMaxHighest)>>,
   <<NameLongest, TextShortest, Given(NMaxLowest)>>,
   <<NameLongest, TextTwoChunks, Absent>>}
  \cup {<<NameEmpty, TextShortest, Absent>>,
        <<NameSpaces, TextShortest, Absent>>,
        <<NameTooLong, TextShortest, Absent>>,
        <<NameHyphen, TextTooShort, Absent>>,
        <<NameHyphen, TextShortest, Given(NMaxLowest - 1)>>,
        <<NameHyphen, TextShortest, Given(NMaxHighest + 1)>>,
        <<NameSpaces, TextTooShort, Given(NMaxLowest - 1)>>}

(***************************************************************************)
(* Spec: the store and the operations on it                                *)
(***************************************************************************)
Init ==
  /\ libraries = <<>>
  /\ nextId = 1
  /\ now = 0
  /\ arg = None
  /\ last = None

\* The create_library tool: the schema, then createLibrary, then save.  The
\* clock has advanced by the time the library is stamped.
CreateLibrary(name, text, n_max) ==
  /\ arg' = [op |-> "createLibrary", name |-> name, text |-> text, n_max |-> n_max]
  /\ IF CreateLibraryInputSchema(name, text, n_max)
       THEN /\ now < MaxCreates
            /\ LET library == createLibrary(name, text,
                                IF n_max = Absent THEN DefaultNMax ELSE n_max[1],
                                nextId, now + 1)
               IN /\ libraries' = save(libraries, library)
                  /\ nextId' = nextId + Len(library.chunks)
                  /\ last' = [op |-> "createLibrary", ok |-> TRUE,
                              library_name |-> library.name,
                              chunks_created |-> Len(library.chunks),
                              compression_ratio |-> library.total_compression_ratio,
                              created_at |-> library.created_at]
            /\ now' = now + 1
       ELSE /\ last' = [op |-> "createLibrary", ok |-> FALSE, error |-> "ValidationError"]
            /\ UNCHANGED <<libraries, nextId, now>>

\* The delete_library tool: LibraryStorage.delete
DeleteLibrary(name) ==
  /\ arg' = [op |-> "deleteLibrary", name |-> name]
  /\ last' = [op |-> "deleteLibrary", deleted |-> deleteResult(libraries, name)]
  /\ libraries' = deleteMap(libraries, name)
  /\ UNCHANGED <<nextId, now>>

\* The verify_integrity tool: verifyIntegrity on every chunk of the library
VerifyLibrary(name) ==
  /\ arg' = [op |-> "verifyIntegrity", name |-> name]
  /\ IF ~exists(libraries, name)
       THEN last' = [op |-> "verifyIntegrity", ok |-> FALSE, error |-> "NotFoundError"]
       ELSE LET library == get(libraries, name)
                verified ==
                  Cardinality({i \in 1..Len(library.chunks) : verifyIntegrity(library.chunks[i])})
            IN last' = [op |-> "verifyIntegrity", ok |-> TRUE,
                        total_chunks |-> Len(library.chunks),
                        verified_chunks |-> verified,
                        failed_chunks |-> Len(library.chunks) - verified,
                        all_verified |-> (verified = Len(library.chunks))]
  /\ UNCHANGED <<libraries, nextId, now>>

Next ==
  \/ \E in \in CreateInputs : CreateLibrary(in[1], in[2], in[3])
  \/ \E name \in Names : DeleteLibrary(name)
  \/ \E name \in Names : VerifyLibrary(name)

Spec == Init /\ [][Next]_vars

(***************************************************************************)
(* Properties of the store                                                 *)
(***************************************************************************)
StoredChunks ==
  UNION {Range(libraries[n].chunks) : n \in DOMAIN libraries}

\* C1: every chunk of every stored library records the SHA-256 digest of its
\* content, and a verification of a stored library counts no failed chunk.
C1_IntegrityRoundTrip ==
  /\ \A n \in DOMAIN libraries : \A i \in 1..Len(libraries[n].chunks) :
        LET chunk == libraries[n].chunks[i]
        IN chunk.hash = HexEncode(SHA256(chunk.content))
  /\ (last.op = "verifyIntegrity" /\ last.ok) =>
        /\ last.failed_chunks = 0
        /\ last.verified_chunks = last.total_chunks
        /\ last.all_verified

\* C1 witness: a library of two chunks, verified while a second library is stored
C1_Witness ==
  /\ last.op = "verifyIntegrity"
  /\ last.ok
  /\ last.total_chunks = 2
  /\ Cardinality(DOMAIN libraries) = 2

\* The inputs the validation accepts, as the interface states them
AcceptedName(name) ==
  /\ Len(name) \in 1..100
  /\ \A i \in 1..Len(name) :
        name[i] \in Range(LowerSeq) \cup Range(DigitSeq) \cup {"-", "_"}
AcceptedCreate(in) ==
  /\ AcceptedName(in.name)
  /\ Len(in.text) >= 100
  /\ (in.n_max # <<>> => in.n_max[1] \in 5..20)

C6_IdempotentDelete ==
  [][arg'.op = "deleteLibrary" =>
       /\ last'.op = "deleteLibrary"
       /\ last'.deleted = (arg'.name \in DOMAIN libraries)
       /\ DOMAIN libraries' = DOMAIN libraries \ {arg'.name}
       /\ \A n \in DOMAIN libraries' : libraries'[n] = libraries[n]
       /\ (~last'.deleted => libraries' = libraries)
       /\ (arg.op = "deleteLibrary" /\ arg.name = arg'.name => ~last'.deleted)]_vars

\* C6 witness: a delete that removed one entry and left the other
C6_Witness ==
  /\ arg.op = "deleteLibrary"
  /\ last.deleted
  /\ arg.name \notin DOMAIN libraries
  /\ libraries # <<>>

(***************************************************************************)
(* SpecEnc: compressChunk called with contents and levels of any sign; the *)
(* clock may tick between two calls.  last.chunks holds what the calls     *)
(* returned, in order.                                                     *)
(***************************************************************************)
MaxEncodeCalls == 2
MaxTicks == 1

EncodeContents == {<<>>, <<"a">>, <<"A","b"," ","c">>}
\* below 1, the lowest, the schema's range, and past the 16 seed bytes
EncodeLevels == {-1, 0, 1, NMaxLowest, SeedBytes + 1, NMaxHighest}

InitEnc ==
  /\ libraries = <<>>
  /\ nextId = 1
  /\ now = 0
  /\ arg = None
  /\ last = [op |-> "compressChunk", chunks |-> <<>>]

CompressChunk(content, n_max) ==
  /\ Len(last.chunks) < MaxEncodeCalls
  /\ arg' = [op |-> "compressChunk", content |-> content, n_max |-> n_max]
  /\ last' = [last EXCEPT !.chunks = Append(@, compressChunk(content, n_max, nextId, now))]
  /\ nextId' = nextId + 1
  /\ UNCHANGED <<libraries, now>>

Tick ==
  /\ now < MaxTicks
  /\ now' = now + 1
  /\ UNCHANGED <<libraries, nextId, arg, last>>

NextEnc ==
  \/ \E content \in EncodeContents, n_max \in EncodeLevels : CompressChunk(content, n_max)
  \/ Tick

SpecEnc == InitEnc /\ [][NextEnc]_vars

\* C7: a descriptor made with nMax >= 1 has nMax states, and the state of
\* level n is the seed byte (n - 1) mod 16 of the content's digest modulo
\* 2 * n * n + 1, hence between 0 and 2 * n * n.
C7_StatesFormula ==
  \A i \in 1..Len(last.chunks) :
     LET chunk == last.chunks[i]
         bit == chunk.gravitational_bit
         seedBytes == SubSeq(SHA256(chunk.content), 1, 16)
     IN bit.n_max >= 1 =>
          /\ Len(bit.states) = bit.n_max
          /\ bit.hash = HexEncode(SHA256(chunk.content))
          /\ \A n \in 1..bit.n_max :
                /\ bit.states[n] = seedBytes[((n - 1) % 16) + 1] % (2 * n * n + 1)
                /\ bit.states[n] >= 0
                /\ bit.states[n] <= 2 * n * n

\* C7 witness: a descriptor of more than 16 levels, whose level 17 reads seed
\* byte 0 again
C7_Witness ==
  \E i \in 1..Len(last.chunks) :
     /\ last.chunks[i].gravitational_bit.n_max >= 17
     /\ Len(last.chunks[i].gravitational_bit.states) >= 17

\* C8: two calls with the same content and the same nMax return the same
\* descriptor, whatever identifier and timestamp the chunk records got.
C8_Determinism ==
  \A i, j \in 1..Len(last.chunks) :
     (/\ last.chunks[i].content = last.chunks[j].content
      /\ last.chunks[i].gravitational_bit.n_max = last.chunks[j].gravitational_bit.n_max)
     => last.chunks[i].gravitational_bit = last.chunks[j].gravitational_bit

\* C8 witness: the same content encoded twice with the same nMax, at two times
C8_Witness ==
  /\ Len(last.chunks) = 2
  /\ last.chunks[1].content = last.chunks[2].content
  /\ Len(last.chunks[1].content) > 0
  /\ last.chunks[1].gravitational_bit.n_max = last.chunks[2].gravitational_bit.n_max
  /\ last.chunks[1].gravitational_bit.n_max >= 1
  /\ last.chunks[1].id # last.chunks[2].id
  /\ last.chunks[1].metadata.created_at # last.chunks[2].metadata.created_at

\* C9: no call with nMax < 1 returns a descriptor.
C9_RejectsNonPositiveLevel ==
  \A i \in 1..Len(last.chunks) : last.chunks[i].gravitational_bit.n_max >= 1

(***************************************************************************)
(* QueryLibraryInputSchema                                                 *)
(***************************************************************************)
TopKLowest == 1
TopKHighest == 20
DefaultTopK == 8

QueryLibraryInputSchema(name, query, top_k) ==
  /\ Len(name) >= 1
  /\ Len(query) >= 1
  /\ \/ top_k = Absent
     \/ /\ top_k[1] >= TopKLowest
        /\ top_k[1] <= TopKHighest

(***************************************************************************)
(* SpecQuery: queryLibrary applied to a library that createLibrary built   *)
(* and save stored                                                         *)
(***************************************************************************)
MaxTopK == 4

Term == <<"d","a","t","a">>
\* before filler words, then the term, then after filler words
TermText(filler, before, after) ==
  WordsText(filler, before) \o <<" ">> \o Term \o <<" ">> \o WordsText(filler, after)

\* three chunks, the first two with the same content
TextEqualChunks == WordsText(<<"a">>, 2 * DefaultWordsPerChunk + 1)
\* the term in the second of three chunks; every other word is a substring
\* of the term
TextTermSecond == TermText(<<"a">>, DefaultWordsPerChunk + 10, DefaultWordsPerChunk)
\* the term in the second of three chunks, no other word related to it
TextTermAlone == TermText(<<"x">>, DefaultWordsPerChunk + 10, DefaultWordsPerChunk)
\* the same, with a full stop ending the first chunk
TextTermAfterStop ==
  WordsText(<<"x">>, DefaultWordsPerChunk - 1) \o <<" ","x","."," ">>
    \o TermText(<<"x">>, 10, DefaultWordsPerChunk)
QueryTexts == {TextEqualChunks, TextTermSecond, TextTermAlone, TextTermAfterStop}

Queries == {Term, <<"a">>, <<"D","a","t","a","?"," ","x","x","x","x">>}
TopKArgs == {Absent, Given(0)} \cup {Given(k) : k \in 1..MaxTopK}

InitQuery ==
  /\ \E text \in QueryTexts :
        LET library == createLibrary(NameHyphen, text, DefaultNMax, 1, 1)
        IN /\ libraries = save(<<>>, library)
           /\ nextId = 1 + Len(library.chunks)
  /\ now = 1
  /\ arg = None
  /\ last = None

\* The query_library tool: the schema, the lookup, then queryLibrary
QueryLibrary(name, query, top_k) ==
  /\ arg' = [op |-> "queryLibrary", name |-> name, query |-> query, top_k |-> top_k]
  /\ IF ~QueryLibraryInputSchema(name, query, top_k)
       THEN last' = [op |-> "queryLibrary", ok |-> FALSE, error |-> "ValidationError"]
       ELSE IF ~exists(libraries, name)
         THEN last' = [op |-> "queryLibrary", ok |-> FALSE, error |-> "NotFoundError"]
         ELSE last' = [op |-> "queryLibrary", ok |-> TRUE,
                       chunks |-> queryLibrary(get(libraries, name), query,
                                               IF top_k = Absent THEN DefaultTopK ELSE top_k[1])]
  /\ UNCHANGED <<libraries, nextId, now>>

NextQuery ==
  \E name \in Names, query \in Queries, top_k \in TopKArgs : QueryLibrary(name, query, top_k)

SpecQuery == InitQuery /\ [][NextQuery]_vars

\* the position in the queried library of the chunk returned at place i
ReturnedFrom(i) ==
  CHOOSE p \in 1..Len(libraries[arg.name].chunks) :
     libraries[arg.name].chunks[p] = last.chunks[i]
Answered == last.op = "queryLibrary" /\ last.ok
RequestedK == IF arg.top_k = <<>> THEN 8 ELSE arg.top_k[1]

\* C4: the chunks come back in order of non-increasing score, chunks of equal
\* score in the order the library holds them, and every chunk left out ranks
\* after every chunk returned: the answer is one fixed sequence.
C4_RankingStability ==
  Answered =>
    LET chunks == libraries[arg.name].chunks
        score(p) == calculateSimilarity(arg.query, chunks[p])
        ranksBefore(p, q) == score(p) > score(q) \/ (score(p) = score(q) /\ p < q)
        returned == {ReturnedFrom(i) : i \in 1..Len(last.chunks)}
    IN /\ \A i \in 1..Len(last.chunks) : last.chunks[i] \in Range(chunks)
       /\ \A i, j \in 1..Len(last.chunks) :
             i < j => ranksBefore(ReturnedFrom(i), ReturnedFrom(j))
       /\ \A p \in returned, q \in (1..Len(chunks)) \ returned : ranksBefore(p, q)

\* C4 witness: two chunks of equal score returned in library order
C4_Witness ==
  /\ Answered
  /\ Len(last.chunks) >= 2
  /\ calculateSimilarity(arg.query, last.chunks[1]) = calculateSimilarity(arg.query, last.chunks[2])
  /\ ReturnedFrom(1) < ReturnedFrom(2)

\* C5: a query with k >= 1 returns min(k, chunkCount) chunks of the library, no
\* chunk twice.
C5_TopKBound ==
  Answered =>
    LET chunks == libraries[arg.name].chunks
    IN /\ Len(last.chunks) = (IF RequestedK < Len(chunks) THEN RequestedK ELSE Len(chunks))
       /\ \A i \in 1..Len(last.chunks) : last.chunks[i] \in Range(chunks)
       /\ \A i, j \in 1..Len(last.chunks) : i # j => last.chunks[i].id # last.chunks[j].id

\* C5 witness: fewer chunks asked for than the library holds
C5_Witness ==
  /\ Answered
  /\ RequestedK = 2
  /\ Len(libraries[arg.name].chunks) = 3
  /\ Len(last.chunks) = 2

\* C10: when the query is one term of more than 3 characters that occurs in
\* the content of exactly one of several chunks, that chunk is returned first.
C10_UniqueTermRankedFirst ==
  LET chunks == libraries[arg.name].chunks
      holders == {p \in 1..Len(chunks) : Includes(chunks[p].content, arg.query)}
  IN (/\ Answered
      /\ Len(arg.query) > 3
      /\ \A i \in 1..Len(arg.query) : IsWordChar(arg.query[i])
      /\ Len(chunks) >= 2
      /\ Cardinality(holders) = 1)
     => /\ Len(last.chunks) >= 1
        /\ \A p \in holders : last.chunks[1] = chunks[p]

====
